---- MODULE Spec2Model ----
(***************************************************************************)
(* DeviceRunner (raspberry/src/devices/runner.py): one runner that owns    *)
(* one IoT Hub client, a reconnect loop with exponential back-off, a send  *)
(* loop draining a bounded asyncio.Queue, and run()'s supervision and      *)
(* teardown.  asyncio is single-threaded and cooperative: every action     *)
(* below is the code executed between two suspension points (await) of one *)
(* task, or one step of the transport (the external IoT Hub client).       *)
(***************************************************************************)
EXTENDS Naturals, Sequences, FiniteSets

-----------------------------------------------------------------------------
(* Program constants (runner.py:17-18), in seconds. *)
_INITIAL_RETRY_INTERVAL == 2
_MAX_RETRY_INTERVAL == 7200

(* Bounds of the model.  _QUEUE_MAX_SIZE is 100 in runner.py:21; the model  *)
(* keeps the queue's behaviour (put_nowait raises QueueFull at capacity,    *)
(* put suspends) with a small capacity.                                     *)
_QUEUE_MAX_SIZE == 2
MaxPayloads == 3
MaxPendingReports == 1
MaxRequests == 2

(* Inputs of the receiver: the method names a request can carry, the names  *)
(* and handlers the application registers (scripts/                         *)
(* receive_direct_methods.py:44-56), what a handler can return and the      *)
(* messages of the exceptions it can raise.                                 *)
MethodNames == {"ping", "reboot", "status"}
RegisteredNames == {"ping", "reboot"}
Handlers == {"handle_ping", "handle_reboot"}
HandlerReturns == {<< 200, [result |-> TRUE] >>, << 503, [result |-> FALSE] >>}
HandlerErrors == {"boom"}

MaxDispatches == 2

(* Payloads handed to the runner in the behaviours checked under fairness *)
MaxFairPayloads == 1

(* Inputs of hmi_methods.dispatch: the decoded C2D payload (runner.py:      *)
(* 254-261) is any JSON value.  A dict is the function from its keys to     *)
(* their values; "None" stands for null and "list" for a JSON array (an     *)
(* unhashable value).                                                       *)
HmiKeys == {"method", "user", "data"}
HmiValues ==
    [method |-> {"run_hmi", "stop_hmi", "reset_hmi", "unknown_xyz", "None", "list"},
     user |-> {"operator", "None"},
     data |-> {"42"}]
Dicts ==
    UNION { { d \in [K -> UNION { HmiValues[k] : k \in K }] :
                \A k \in K : d[k] \in HmiValues[k] } : K \in SUBSET HmiKeys }
HmiMessages ==
    { [is_dict |-> TRUE, items |-> d] : d \in Dicts }
        \cup { [is_dict |-> FALSE, items |-> [k \in {} |-> "None"]] }

-----------------------------------------------------------------------------
VARIABLES
    client_connected,       \* self._client.connected: the transport's own link state
    pending_reports,        \* state-change callbacks the transport has still to deliver
    slots,                  \* the client's three callback slots (set / None)
    connected_event,        \* asyncio.Event
    disconnected_event,     \* asyncio.Event
    exit_event,             \* asyncio.Event
    queue,                  \* self._queue, front first
    enqueue_nowait_raised,  \* the last enqueue_nowait call raised QueueFull
    retry_factor,           \* self._retry_factor
    retry_interval,         \* self._retry_interval
    try_number,             \* self._try_number
    reconnect_pc,           \* position of the _reconnect_loop task
    sleep,                  \* _reconnect_loop's local `sleep` (0: not yet computed)
    send_pc,                \* position of the _send_loop task
    raw_data,               \* the payload the send loop holds (0: none)
    run_pc,                 \* position of run()
    run_result,             \* how run() ended: "returned" or the exception it raised
    next_id,                \* payloads are numbered 1, 2, ... in the order they are accepted
    sent,                   \* payloads of the send_message calls that returned, in order
    send_failed,            \* the send loop's except branch has run (a send or build failed)
    last_connect,           \* outcome of the latest completed connect call
    n_fail,                 \* connect failures since construction / the last connected report
    clean_run,              \* no connect call succeeded since construction / that report
    stop_held,              \* payload the send loop held when stop() first set exit (0: none)
    shutdown_calls,         \* calls of self._client.shutdown() made by run()
    shutdown_raised,        \* that shutdown() call raised
    \* AzureIoTReceiver (receiver/azure_iot_receiver.py)
    _handlers,              \* self._handlers: method name -> handler ("none": no entry)
    receiver_pc,            \* position of AzureIoTReceiver.run()
    on_method_request_received, \* the receiver client's slot is set to self._dispatch
    requests,               \* the _dispatch calls made so far, by request id
    invoked,                \* the handlers invoked, in order, by request id
    responses,              \* the responses passed to send_method_response, in
                            \* order, by the request id they are addressed to
    \* hmi_methods (receiver/hmi_methods.py) and the hmi_events table
    hmi_events,             \* rows of hmi_events, in insertion order
    hmi_calls               \* the dispatch calls made so far and how each ended

vars == << client_connected, pending_reports, slots, connected_event,
           disconnected_event, exit_event, queue, enqueue_nowait_raised,
           retry_factor, retry_interval, try_number, reconnect_pc, sleep,
           send_pc, raw_data, run_pc, run_result, next_id, sent,
           send_failed, last_connect, n_fail, clean_run, stop_held,
           shutdown_calls, shutdown_raised, _handlers, receiver_pc,
           on_method_request_received, requests, invoked, responses,
           hmi_events, hmi_calls >>

transport_vars == << client_connected, pending_reports >>
event_vars     == << connected_event, disconnected_event >>
backoff_vars   == << retry_factor, retry_interval, try_number >>
reconnect_vars == << reconnect_pc, sleep, last_connect, n_fail, clean_run >>
send_vars      == << send_pc, raw_data, sent, send_failed >>
producer_vars  == << next_id, enqueue_nowait_raised >>
run_vars       == << run_pc, run_result, slots, shutdown_calls, shutdown_raised >>
runner_vars    == << transport_vars, event_vars, exit_event, queue, backoff_vars,
                     reconnect_vars, send_vars, producer_vars, run_vars,
                     stop_held >>
receiver_vars  == << _handlers, receiver_pc, on_method_request_received,
                     requests, invoked, responses >>
dispatch_vars  == << requests, invoked, responses >>
hmi_vars       == << hmi_events, hmi_calls >>

-----------------------------------------------------------------------------
(* Helpers *)

Min(a, b) == IF a <= b THEN a ELSE b

(* asyncio.Queue.full() *)
full(q) == Len(q) >= _QUEUE_MAX_SIZE

(* BackoffDelay with the exponent off by one *)
BackoffDelay_exponent_off_by_one(factor) ==
    Min(_INITIAL_RETRY_INTERVAL * (2 ^ (factor + 1)), _MAX_RETRY_INTERVAL)

(* runner.py:142-145 *)
BackoffDelay(factor) ==
    Min(_INITIAL_RETRY_INTERVAL * (2 ^ factor), _MAX_RETRY_INTERVAL)

(* The transport records one more state change to report (it coalesces      *)
(* beyond MaxPendingReports: the handler reads the current state anyway).   *)
Report(n) == Min(n + 1, MaxPendingReports)

(* The loop condition as it would be without the exit check of line 131 *)
WhileNotConnected_ignores_exit(conn, exit) ==
    IF conn THEN "wait" ELSE "connecting"

(* runner.py:130-132, then 126 when the inner loop is left: where the       *)
(* reconnect loop goes when it evaluates `while not self._client.connected` *)
WhileNotConnected(conn, exit) ==
    IF conn THEN "wait"
    ELSE IF exit THEN "returned"
    ELSE "connecting"

(* runner.py:175-184: top of the send loop *)
SendLoopTop(conn) == IF conn THEN "getwait" ELSE "waitconn"

Finished == {"returned", "raised", "cancelled"}

-----------------------------------------------------------------------------
Init ==
    /\ client_connected = FALSE
    /\ pending_reports = 0
    /\ slots = [state_change |-> FALSE, message |-> FALSE, method |-> FALSE]
    /\ connected_event = FALSE
    /\ disconnected_event = TRUE
    /\ exit_event = FALSE
    /\ queue = << >>
    /\ enqueue_nowait_raised = FALSE
    /\ retry_factor = 0
    /\ retry_interval = _INITIAL_RETRY_INTERVAL
    /\ try_number = 1
    /\ reconnect_pc = "idle"
    /\ sleep = 0
    /\ send_pc = "idle"
    /\ raw_data = 0
    /\ run_pc = "init"
    /\ run_result = "none"
    /\ next_id = 1
    /\ sent = << >>
    /\ send_failed = FALSE
    /\ last_connect = "none"
    /\ n_fail = 0
    /\ clean_run = TRUE
    /\ stop_held = 0
    /\ shutdown_calls = 0
    /\ shutdown_raised = FALSE
    /\ _handlers = [name \in MethodNames |-> "none"]
    /\ receiver_pc = "init"
    /\ on_method_request_received = FALSE
    /\ requests = << >>
    /\ invoked = [r \in 1..MaxRequests |-> << >>]
    /\ responses = [r \in 1..MaxRequests |-> << >>]
    /\ hmi_events = << >>
    /\ hmi_calls = << >>

-----------------------------------------------------------------------------
(* Public API *)

(* enqueue_nowait as it would be if a full queue dropped its oldest payload *)
(* to make room                                                             *)
enqueue_nowait_drops_oldest ==
    /\ next_id <= MaxPayloads
    /\ enqueue_nowait_raised' = FALSE
    /\ queue' = Append(IF full(queue) THEN Tail(queue) ELSE queue, next_id)
    /\ next_id' = next_id + 1
    /\ UNCHANGED << transport_vars, event_vars, exit_event, backoff_vars,
                    reconnect_vars, send_vars, run_vars, stop_held >>
    /\ UNCHANGED << receiver_vars, hmi_vars >>

(* runner.py:89-91: put_nowait raises QueueFull on a full queue *)
enqueue_nowait ==
    /\ next_id <= MaxPayloads
    /\ IF full(queue)
       THEN /\ enqueue_nowait_raised' = TRUE
            /\ UNCHANGED << queue, next_id >>
       ELSE /\ enqueue_nowait_raised' = FALSE
            /\ queue' = Append(queue, next_id)
            /\ next_id' = next_id + 1
    /\ UNCHANGED << transport_vars, event_vars, exit_event, backoff_vars,
                    reconnect_vars, send_vars, run_vars, stop_held >>
    /\ UNCHANGED << receiver_vars, hmi_vars >>

(* enqueue as it would be if put() did not wait for a free slot *)
enqueue_without_waiting ==
    /\ next_id <= MaxPayloads
    /\ queue' = Append(queue, next_id)
    /\ next_id' = next_id + 1
    /\ UNCHANGED << transport_vars, event_vars, exit_event, backoff_vars,
                    reconnect_vars, send_vars, run_vars, stop_held,
                    enqueue_nowait_raised >>
    /\ UNCHANGED << receiver_vars, hmi_vars >>

(* runner.py:93-95: put() suspends while the queue is full *)
enqueue ==
    /\ next_id <= MaxPayloads
    /\ ~full(queue)
    /\ queue' = Append(queue, next_id)
    /\ next_id' = next_id + 1
    /\ UNCHANGED << transport_vars, event_vars, exit_event, backoff_vars,
                    reconnect_vars, send_vars, run_vars, stop_held,
                    enqueue_nowait_raised >>
    /\ UNCHANGED << receiver_vars, hmi_vars >>

(* stop() as it would be if it tore the runner down itself: tasks cancelled *)
(* and the inbound slots cleared outside run()                              *)
stop_tears_down ==
    /\ exit_event' = TRUE
    /\ stop_held' = IF ~exit_event /\ send_pc = "got" THEN raw_data ELSE stop_held
    /\ slots' = [slots EXCEPT !.message = FALSE, !.method = FALSE]
    /\ reconnect_pc' = IF reconnect_pc \in Finished \cup {"idle"}
                       THEN reconnect_pc ELSE "cancelled"
    /\ send_pc' = IF send_pc \in Finished \cup {"idle"}
                  THEN send_pc ELSE "cancelled"
    /\ raw_data' = 0
    /\ UNCHANGED << transport_vars, event_vars, queue, backoff_vars, sleep,
                    last_connect, n_fail, clean_run, sent, send_failed, run_pc,
                    run_result, shutdown_calls, shutdown_raised, producer_vars >>
    /\ UNCHANGED << receiver_vars, hmi_vars >>

(* runner.py:97-99 *)
stop ==
    /\ exit_event' = TRUE
    /\ stop_held' = IF ~exit_event /\ send_pc = "got" THEN raw_data ELSE stop_held
    /\ UNCHANGED << transport_vars, event_vars, queue, backoff_vars,
                    reconnect_vars, send_vars, run_vars, producer_vars >>
    /\ UNCHANGED << receiver_vars, hmi_vars >>

-----------------------------------------------------------------------------
(* The handler as it would be if the connected branch forgot               *)
(* disconnected_event.clear()                                               *)
_on_connection_state_change_no_clear ==
    /\ slots.state_change
    /\ pending_reports > 0
    /\ pending_reports' = pending_reports - 1
    /\ IF client_connected
       THEN /\ connected_event' = TRUE
            /\ retry_factor' = 0
            /\ retry_interval' = _INITIAL_RETRY_INTERVAL
            /\ try_number' = 1
            /\ n_fail' = 0
            /\ clean_run' = TRUE
            /\ UNCHANGED disconnected_event
       ELSE /\ connected_event' = FALSE
            /\ disconnected_event' = TRUE
            /\ UNCHANGED << backoff_vars, n_fail, clean_run >>
    /\ UNCHANGED << client_connected, exit_event, queue, reconnect_pc, sleep,
                    last_connect, send_vars, run_vars, producer_vars, stop_held >>
    /\ UNCHANGED << receiver_vars, hmi_vars >>

(* The handler as it would be if the disconnected branch forgot             *)
(* disconnected_event.set()                                                 *)
_on_connection_state_change_no_set ==
    /\ slots.state_change
    /\ pending_reports > 0
    /\ pending_reports' = pending_reports - 1
    /\ IF client_connected
       THEN /\ disconnected_event' = FALSE
            /\ connected_event' = TRUE
            /\ retry_factor' = 0
            /\ retry_interval' = _INITIAL_RETRY_INTERVAL
            /\ try_number' = 1
            /\ n_fail' = 0
            /\ clean_run' = TRUE
       ELSE /\ connected_event' = FALSE
            /\ UNCHANGED << disconnected_event, backoff_vars, n_fail, clean_run >>
    /\ UNCHANGED << client_connected, exit_event, queue, reconnect_pc, sleep,
                    last_connect, send_vars, run_vars, producer_vars, stop_held >>
    /\ UNCHANGED << receiver_vars, hmi_vars >>

(* The handler as it would be with edge-triggered signals: a connected      *)
(* report toggles connected_event                                           *)
_on_connection_state_change_edge_triggered ==
    /\ slots.state_change
    /\ pending_reports > 0
    /\ pending_reports' = pending_reports - 1
    /\ IF client_connected
       THEN /\ disconnected_event' = FALSE
            /\ connected_event' = ~connected_event
            /\ retry_factor' = 0
            /\ retry_interval' = _INITIAL_RETRY_INTERVAL
            /\ try_number' = 1
            /\ n_fail' = 0
            /\ clean_run' = TRUE
       ELSE /\ connected_event' = FALSE
            /\ disconnected_event' = TRUE
            /\ UNCHANGED << backoff_vars, n_fail, clean_run >>
    /\ UNCHANGED << client_connected, exit_event, queue, reconnect_pc, sleep,
                    last_connect, send_vars, run_vars, producer_vars, stop_held >>
    /\ UNCHANGED << receiver_vars, hmi_vars >>

(* The handler as it would be if a disconnection report reset the backoff   *)
(* state too                                                                *)
_on_connection_state_change_resets_on_disconnect ==
    /\ slots.state_change
    /\ pending_reports > 0
    /\ pending_reports' = pending_reports - 1
    /\ retry_factor' = 0
    /\ retry_interval' = _INITIAL_RETRY_INTERVAL
    /\ try_number' = 1
    /\ IF client_connected
       THEN /\ disconnected_event' = FALSE
            /\ connected_event' = TRUE
            /\ n_fail' = 0
            /\ clean_run' = TRUE
       ELSE /\ connected_event' = FALSE
            /\ disconnected_event' = TRUE
            /\ UNCHANGED << n_fail, clean_run >>
    /\ UNCHANGED << client_connected, exit_event, queue, reconnect_pc, sleep,
                    last_connect, send_vars, run_vars, producer_vars, stop_held >>
    /\ UNCHANGED << receiver_vars, hmi_vars >>

(* Connection-state handler, runner.py:105-117; the transport calls it once *)
(* per pending report and it reads the client's state at that moment.       *)
_on_connection_state_change ==
    /\ slots.state_change
    /\ pending_reports > 0
    /\ pending_reports' = pending_reports - 1
    /\ IF client_connected
       THEN /\ disconnected_event' = FALSE
            /\ connected_event' = TRUE
            /\ retry_factor' = 0
            /\ retry_interval' = _INITIAL_RETRY_INTERVAL
            /\ try_number' = 1
            /\ n_fail' = 0
            /\ clean_run' = TRUE
       ELSE /\ connected_event' = FALSE
            /\ disconnected_event' = TRUE
            /\ UNCHANGED << backoff_vars, n_fail, clean_run >>
    /\ UNCHANGED << client_connected, exit_event, queue, reconnect_pc, sleep,
                    last_connect, send_vars, run_vars, producer_vars, stop_held >>
    /\ UNCHANGED << receiver_vars, hmi_vars >>

(* The link to the broker drops (transport, spec section 6). *)
link_down ==
    /\ client_connected
    /\ client_connected' = FALSE
    /\ pending_reports' = Report(pending_reports)
    /\ UNCHANGED << event_vars, exit_event, queue, backoff_vars, reconnect_vars,
                    send_vars, run_vars, producer_vars, stop_held >>
    /\ UNCHANGED << receiver_vars, hmi_vars >>

-----------------------------------------------------------------------------
(* _reconnect_loop, runner.py:123-166 *)

(* The wait of line 126 as it would be if it waited for exit_event alone *)
reconnect_wait_first_exit_only ==
    /\ reconnect_pc = "wait"
    /\ exit_event
    /\ reconnect_pc' = "woken"
    /\ UNCHANGED << transport_vars, event_vars, exit_event, queue, backoff_vars,
                    sleep, last_connect, n_fail, clean_run, send_vars, run_vars,
                    producer_vars, stop_held >>
    /\ UNCHANGED << receiver_vars, hmi_vars >>

(* runner.py:126 (24-35): one of the awaited events is set, _wait_first's   *)
(* wait completes and the task is scheduled to resume.                      *)
reconnect_wait_first ==
    /\ reconnect_pc = "wait"
    /\ disconnected_event \/ exit_event
    /\ reconnect_pc' = "woken"
    /\ UNCHANGED << transport_vars, event_vars, exit_event, queue, backoff_vars,
                    sleep, last_connect, n_fail, clean_run, send_vars, run_vars,
                    producer_vars, stop_held >>
    /\ UNCHANGED << receiver_vars, hmi_vars >>

(* runner.py:127-139: after the wait, up to the connect call *)
reconnect_after_wait ==
    /\ reconnect_pc = "woken"
    /\ reconnect_pc' = IF exit_event THEN "returned"
                       ELSE WhileNotConnected(client_connected, exit_event)
    /\ UNCHANGED << transport_vars, event_vars, exit_event, queue, backoff_vars,
                    sleep, last_connect, n_fail, clean_run, send_vars, run_vars,
                    producer_vars, stop_held >>
    /\ UNCHANGED << receiver_vars, hmi_vars >>

(* connect() returning as it would be if the reconnect loop flipped the     *)
(* signals itself on success                                                *)
connect_succeeds_sets_connected ==
    /\ reconnect_pc = "connecting"
    /\ client_connected' = TRUE
    /\ pending_reports' = Report(pending_reports)
    /\ last_connect' = "ok"
    /\ clean_run' = FALSE
    /\ connected_event' = TRUE
    /\ disconnected_event' = FALSE
    /\ reconnect_pc' = WhileNotConnected(TRUE, exit_event)
    /\ UNCHANGED << exit_event, queue, backoff_vars, sleep, n_fail,
                    send_vars, run_vars, producer_vars, stop_held >>
    /\ UNCHANGED << receiver_vars, hmi_vars >>

(* runner.py:139-140, 130: connect() returns; the link is up *)
connect_succeeds ==
    /\ reconnect_pc = "connecting"
    /\ client_connected' = TRUE
    /\ pending_reports' = Report(pending_reports)
    /\ last_connect' = "ok"
    /\ clean_run' = FALSE
    /\ reconnect_pc' = WhileNotConnected(TRUE, exit_event)
    /\ UNCHANGED << event_vars, exit_event, queue, backoff_vars, sleep, n_fail,
                    send_vars, run_vars, producer_vars, stop_held >>
    /\ UNCHANGED << receiver_vars, hmi_vars >>

(* connect() raising as it would be if only a delay above the ceiling were  *)
(* fatal (`>` for `>=` at line 146)                                         *)
connect_fails_ceiling_not_fatal ==
    /\ reconnect_pc = "connecting"
    /\ sleep' = BackoffDelay(retry_factor)
    /\ last_connect' = "fail"
    /\ n_fail' = n_fail + 1
    /\ IF sleep' > _MAX_RETRY_INTERVAL
       THEN /\ exit_event' = TRUE
            /\ reconnect_pc' = "raised"
            /\ UNCHANGED backoff_vars
       ELSE /\ retry_factor' = retry_factor + 1
            /\ try_number' = try_number + 1
            /\ reconnect_pc' = "sleeping"
            /\ UNCHANGED << exit_event, retry_interval >>
    /\ UNCHANGED << transport_vars, event_vars, queue, clean_run, send_vars,
                    run_vars, producer_vars, stop_held >>
    /\ UNCHANGED << receiver_vars, hmi_vars >>

(* runner.py:141-166: connect() raises *)
connect_fails ==
    /\ reconnect_pc = "connecting"
    /\ sleep' = BackoffDelay(retry_factor)
    /\ last_connect' = "fail"
    /\ n_fail' = n_fail + 1
    /\ IF sleep' >= _MAX_RETRY_INTERVAL
       THEN /\ exit_event' = TRUE
            /\ reconnect_pc' = "raised"
            /\ UNCHANGED backoff_vars
       ELSE /\ retry_factor' = retry_factor + 1
            /\ try_number' = try_number + 1
            /\ reconnect_pc' = "sleeping"
            /\ UNCHANGED << exit_event, retry_interval >>
    /\ UNCHANGED << transport_vars, event_vars, queue, clean_run, send_vars,
                    run_vars, producer_vars, stop_held >>
    /\ UNCHANGED << receiver_vars, hmi_vars >>

(* The end of the sleep as it would be if the loop called connect() again   *)
(* without the checks of lines 130-132                                      *)
reconnect_sleep_over_retries_at_once ==
    /\ reconnect_pc = "sleeping"
    /\ reconnect_pc' = "connecting"
    /\ UNCHANGED << transport_vars, event_vars, exit_event, queue, backoff_vars,
                    sleep, last_connect, n_fail, clean_run, send_vars, run_vars,
                    producer_vars, stop_held >>
    /\ UNCHANGED << receiver_vars, hmi_vars >>

(* runner.py:166, 130-132: asyncio.sleep(sleep) is over *)
reconnect_sleep_over ==
    /\ reconnect_pc = "sleeping"
    /\ reconnect_pc' = WhileNotConnected(client_connected, exit_event)
    /\ UNCHANGED << transport_vars, event_vars, exit_event, queue, backoff_vars,
                    sleep, last_connect, n_fail, clean_run, send_vars, run_vars,
                    producer_vars, stop_held >>
    /\ UNCHANGED << receiver_vars, hmi_vars >>

-----------------------------------------------------------------------------
(* _send_loop, runner.py:172-223 *)

(* runner.py:177 (24-35): connected_event or exit_event is set and          *)
(* _wait_first's wait completes                                             *)
send_wait_first ==
    /\ send_pc = "waitconn"
    /\ connected_event \/ exit_event
    /\ send_pc' = "woken"
    /\ UNCHANGED << transport_vars, event_vars, exit_event, queue, backoff_vars,
                    reconnect_vars, raw_data, sent, send_failed, run_vars,
                    producer_vars, stop_held >>
    /\ UNCHANGED << receiver_vars, hmi_vars >>

(* runner.py:178-184: after the wait; client.connected is not read again *)
send_after_wait ==
    /\ send_pc = "woken"
    /\ send_pc' = IF exit_event THEN "returned" ELSE "getwait"
    /\ UNCHANGED << transport_vars, event_vars, exit_event, queue, backoff_vars,
                    reconnect_vars, raw_data, sent, send_failed, run_vars,
                    producer_vars, stop_held >>
    /\ UNCHANGED << receiver_vars, hmi_vars >>

(* get_task as it would be if it took the newest item (the tail) *)
send_get_task_done_lifo ==
    /\ send_pc \in {"getwait", "exitdone"}
    /\ queue # << >>
    /\ raw_data' = queue[Len(queue)]
    /\ queue' = SubSeq(queue, 1, Len(queue) - 1)
    /\ send_pc' = "got"
    /\ UNCHANGED << transport_vars, event_vars, exit_event, backoff_vars,
                    reconnect_vars, sent, send_failed, run_vars,
                    producer_vars, stop_held >>
    /\ UNCHANGED << receiver_vars, hmi_vars >>

(* runner.py:182: get_task takes the front of the queue.  It runs before    *)
(* exit_task, and may still complete after exit_task did, as long as the    *)
(* send loop has not resumed and cancelled it.                              *)
send_get_task_done ==
    /\ send_pc \in {"getwait", "exitdone"}
    /\ queue # << >>
    /\ raw_data' = Head(queue)
    /\ queue' = Tail(queue)
    /\ send_pc' = "got"
    /\ UNCHANGED << transport_vars, event_vars, exit_event, backoff_vars,
                    reconnect_vars, sent, send_failed, run_vars,
                    producer_vars, stop_held >>
    /\ UNCHANGED << receiver_vars, hmi_vars >>

(* runner.py:183: exit_task completes while get_task waits on an empty queue *)
send_exit_task_done ==
    /\ send_pc = "getwait"
    /\ exit_event
    /\ queue = << >>
    /\ send_pc' = "exitdone"
    /\ UNCHANGED << transport_vars, event_vars, exit_event, queue, backoff_vars,
                    reconnect_vars, raw_data, sent, send_failed, run_vars,
                    producer_vars, stop_held >>
    /\ UNCHANGED << receiver_vars, hmi_vars >>

(* runner.py:187-198 with get_task cancelled: exit_event is set, no item *)
send_exit_without_item ==
    /\ send_pc = "exitdone"
    /\ send_pc' = "returned"
    /\ UNCHANGED << transport_vars, event_vars, exit_event, queue, backoff_vars,
                    reconnect_vars, raw_data, sent, send_failed, run_vars,
                    producer_vars, stop_held >>
    /\ UNCHANGED << receiver_vars, hmi_vars >>

(* runner.py:191-198: exit_event is set and get_task delivered an item:     *)
(* put_nowait puts it back (at the tail); QueueFull is swallowed.           *)
send_exit_put_back ==
    /\ send_pc = "got"
    /\ exit_event
    /\ queue' = IF full(queue) THEN queue ELSE Append(queue, raw_data)
    /\ raw_data' = 0
    /\ send_pc' = "returned"
    /\ UNCHANGED << transport_vars, event_vars, exit_event, backoff_vars,
                    reconnect_vars, sent, send_failed, run_vars,
                    producer_vars, stop_held >>
    /\ UNCHANGED << receiver_vars, hmi_vars >>

(* runner.py:200-209: the item is built into a Message and send_message is  *)
(* called                                                                   *)
send_message_called ==
    /\ send_pc = "got"
    /\ ~exit_event
    /\ send_pc' = "sending"
    /\ UNCHANGED << transport_vars, event_vars, exit_event, queue, backoff_vars,
                    reconnect_vars, raw_data, sent, send_failed, run_vars,
                    producer_vars, stop_held >>
    /\ UNCHANGED << receiver_vars, hmi_vars >>

(* runner.py:209-216, 175: send_message returns *)
send_succeeds ==
    /\ send_pc = "sending"
    /\ client_connected
    /\ sent' = Append(sent, raw_data)
    /\ raw_data' = 0
    /\ send_pc' = SendLoopTop(client_connected)
    /\ UNCHANGED << transport_vars, event_vars, exit_event, queue, backoff_vars,
                    reconnect_vars, send_failed, run_vars, producer_vars,
                    stop_held >>
    /\ UNCHANGED << receiver_vars, hmi_vars >>

(* runner.py:217-223, 175: the except branch: put_nowait(raw_data) at the    *)
(* tail; on a full queue it raises QueueFull out of the handler and the     *)
(* task ends with that exception.                                           *)
ReEnqueue ==
    /\ send_failed' = TRUE
    /\ raw_data' = 0
    /\ IF full(queue)
       THEN /\ send_pc' = "raised"
            /\ UNCHANGED queue
       ELSE /\ queue' = Append(queue, raw_data)
            /\ send_pc' = SendLoopTop(client_connected)

(* runner.py:209, 217: send_message raises *)
send_fails ==
    /\ send_pc = "sending"
    /\ ReEnqueue
    /\ UNCHANGED << transport_vars, event_vars, exit_event, backoff_vars,
                    reconnect_vars, sent, run_vars, producer_vars, stop_held >>
    /\ UNCHANGED << receiver_vars, hmi_vars >>

(* runner.py:203, 217: build_payload raises (ValueError); send_message is   *)
(* not called                                                               *)
build_payload_fails ==
    /\ send_pc = "got"
    /\ ~exit_event
    /\ ReEnqueue
    /\ UNCHANGED << transport_vars, event_vars, exit_event, backoff_vars,
                    reconnect_vars, sent, run_vars, producer_vars,
                    stop_held >>
    /\ UNCHANGED << receiver_vars, hmi_vars >>

-----------------------------------------------------------------------------
(* run, runner.py:229-295 *)

(* runner.py:249-281, called as main.py:61-77 does with                     *)
(* DEVICE_RECEIVE_DATA: both on_c2d_message and method_registry are given,  *)
(* so all three slots are set.  The two tasks take their first steps when   *)
(* run() suspends in asyncio.wait: the reconnect loop enters _wait_first    *)
(* (126), the send loop evaluates line 175.                                 *)
run_start ==
    /\ run_pc = "init"
    /\ slots' = [state_change |-> TRUE, message |-> TRUE, method |-> TRUE]
    /\ reconnect_pc' = "wait"
    /\ send_pc' = SendLoopTop(client_connected)
    /\ run_pc' = "waiting"
    /\ UNCHANGED << transport_vars, event_vars, exit_event, queue, backoff_vars,
                    sleep, last_connect, n_fail, clean_run, raw_data, sent,
                    send_failed, run_result, producer_vars, stop_held,
                    shutdown_calls, shutdown_raised >>
    /\ UNCHANGED << receiver_vars, hmi_vars >>

(* The exceptions the finished tasks hold *)
TaskExceptions ==
    (IF reconnect_pc = "raised" THEN {"RuntimeError"} ELSE {})
        \cup (IF send_pc = "raised" THEN {"QueueFull"} ELSE {})

(* The finally block as it would be without the cancellation of the tasks   *)
(* (lines 286-288)                                                          *)
run_wait_returns_no_cancel ==
    /\ run_pc = "waiting"
    /\ \/ TaskExceptions # {}
       \/ (reconnect_pc \in Finished /\ send_pc \in Finished)
    /\ \E r \in (IF TaskExceptions = {} THEN {"returned"} ELSE TaskExceptions) :
          run_result' = r
    /\ exit_event' = TRUE
    /\ run_pc' = "gather"
    /\ UNCHANGED << transport_vars, event_vars, queue, backoff_vars,
                    reconnect_vars, send_vars, slots, producer_vars, stop_held,
                    shutdown_calls, shutdown_raised >>
    /\ UNCHANGED << receiver_vars, hmi_vars >>

(* runner.py:281-288: asyncio.wait(FIRST_EXCEPTION) returns once a task has *)
(* raised or both have finished; `done` holds every task finished by then   *)
(* and the first task.result() that raises decides (set order); finally:    *)
(* exit_event.set(), both tasks cancelled.                                  *)
run_wait_returns ==
    /\ run_pc = "waiting"
    /\ \/ TaskExceptions # {}
       \/ (reconnect_pc \in Finished /\ send_pc \in Finished)
    /\ \E r \in (IF TaskExceptions = {} THEN {"returned"} ELSE TaskExceptions) :
          run_result' = r
    /\ exit_event' = TRUE
    /\ reconnect_pc' = IF reconnect_pc \in Finished THEN reconnect_pc ELSE "cancelled"
    /\ send_pc' = IF send_pc \in Finished THEN send_pc ELSE "cancelled"
    /\ raw_data' = 0
    /\ run_pc' = "gather"
    /\ UNCHANGED << transport_vars, event_vars, queue, backoff_vars, sleep,
                    last_connect, n_fail, clean_run, sent, send_failed,
                    slots, producer_vars, stop_held, shutdown_calls,
                    shutdown_raised >>
    /\ UNCHANGED << receiver_vars, hmi_vars >>

(* runner.py:288-292: the tasks are gathered, two slots cleared, shutdown()  *)
(* called                                                                   *)
run_clear_slots ==
    /\ run_pc = "gather"
    /\ slots' = [slots EXCEPT !.message = FALSE, !.method = FALSE]
    /\ shutdown_calls' = shutdown_calls + 1
    /\ run_pc' = "shutdown"
    /\ UNCHANGED << transport_vars, event_vars, exit_event, queue, backoff_vars,
                    reconnect_vars, send_vars, run_result, producer_vars,
                    stop_held, shutdown_raised >>
    /\ UNCHANGED << receiver_vars, hmi_vars >>

(* The end of run() as it would be if it cleared exit_event for a later run *)
run_shutdown_returns_clears_exit ==
    /\ run_pc = "shutdown"
    /\ run_pc' = "done"
    /\ exit_event' = FALSE
    /\ UNCHANGED << transport_vars, event_vars, queue, backoff_vars,
                    reconnect_vars, send_vars, run_result, slots, producer_vars,
                    stop_held, shutdown_calls, shutdown_raised >>
    /\ UNCHANGED << receiver_vars, hmi_vars >>

(* runner.py:292, 295: shutdown() returns; run() ends with the outcome the   *)
(* try block left                                                           *)
run_shutdown_returns ==
    /\ run_pc = "shutdown"
    /\ run_pc' = "done"
    /\ UNCHANGED << transport_vars, event_vars, exit_event, queue, backoff_vars,
                    reconnect_vars, send_vars, run_result, slots, producer_vars,
                    stop_held, shutdown_calls, shutdown_raised >>
    /\ UNCHANGED << receiver_vars, hmi_vars >>

(* run() as it would be without the try/except around shutdown(): the error *)
(* raised in the finally block replaces the outcome                         *)
run_shutdown_raises_not_swallowed ==
    /\ run_pc = "shutdown"
    /\ shutdown_raised' = TRUE
    /\ run_result' = "ShutdownError"
    /\ run_pc' = "done"
    /\ UNCHANGED << transport_vars, event_vars, exit_event, queue, backoff_vars,
                    reconnect_vars, send_vars, slots, producer_vars,
                    stop_held, shutdown_calls >>
    /\ UNCHANGED << receiver_vars, hmi_vars >>

(* runner.py:291-295: shutdown() raises; `except Exception: pass`            *)
run_shutdown_raises ==
    /\ run_pc = "shutdown"
    /\ shutdown_raised' = TRUE
    /\ run_pc' = "done"
    /\ UNCHANGED << transport_vars, event_vars, exit_event, queue, backoff_vars,
                    reconnect_vars, send_vars, run_result, slots, producer_vars,
                    stop_held, shutdown_calls >>
    /\ UNCHANGED << receiver_vars, hmi_vars >>

-----------------------------------------------------------------------------
(* AzureIoTReceiver, receiver/azure_iot_receiver.py *)

(* register as it would be if the first registration of a name won          *)
register_first_wins ==
    /\ \E method_name \in RegisteredNames, fn \in Handlers :
          /\ _handlers[method_name] = "none"
          /\ _handlers' = [_handlers EXCEPT ![method_name] = fn]
    /\ UNCHANGED << receiver_pc, on_method_request_received, dispatch_vars,
                    runner_vars, hmi_vars >>

(* azure_iot_receiver.py:59-76: the decorator stores fn under method_name   *)
(* (a later registration replaces an earlier one)                           *)
register ==
    /\ \E method_name \in RegisteredNames, fn \in Handlers :
          /\ _handlers[method_name] # fn
          /\ _handlers' = [_handlers EXCEPT ![method_name] = fn]
    /\ UNCHANGED << receiver_pc, on_method_request_received, dispatch_vars,
                    runner_vars, hmi_vars >>

(* azure_iot_receiver.py:110-116: connect() returns, the slot is set and    *)
(* run() blocks until the operator quits                                    *)
receiver_connects ==
    /\ receiver_pc = "init"
    /\ on_method_request_received' = TRUE
    /\ receiver_pc' = "listening"
    /\ UNCHANGED << _handlers, dispatch_vars, runner_vars, hmi_vars >>

(* azure_iot_receiver.py:110: connect() raises, outside the try block *)
receiver_connect_fails ==
    /\ receiver_pc = "init"
    /\ receiver_pc' = "raised"
    /\ UNCHANGED << _handlers, on_method_request_received, dispatch_vars,
                    runner_vars, hmi_vars >>

(* azure_iot_receiver.py:116-125: _wait_for_quit returns (or run() is       *)
(* cancelled); shutdown() clears the slot and calls client.shutdown()       *)
receiver_quits ==
    /\ receiver_pc = "listening"
    /\ on_method_request_received' = FALSE
    /\ receiver_pc' = "shutdown"
    /\ UNCHANGED << _handlers, dispatch_vars, runner_vars, hmi_vars >>

(* azure_iot_receiver.py:125-126, 120 *)
receiver_shutdown_returns ==
    /\ receiver_pc = "shutdown"
    /\ receiver_pc' = "done"
    /\ UNCHANGED << _handlers, on_method_request_received, dispatch_vars,
                    runner_vars, hmi_vars >>

(* azure_iot_receiver.py:125, 120: client.shutdown() raises out of run() *)
receiver_shutdown_raises ==
    /\ receiver_pc = "shutdown"
    /\ receiver_pc' = "raised"
    /\ UNCHANGED << _handlers, on_method_request_received, dispatch_vars,
                    runner_vars, hmi_vars >>

(* The 400 answer with another status *)
UnknownMethod_404(name) ==
    << 404, [result |-> FALSE, data |-> << "unknown method: ", name >>] >>

(* azure_iot_receiver.py:95: status and payload for a name without handler  *)
(* (the f-string is kept as the pair of its two parts)                      *)
UnknownMethod(name) ==
    << 400, [result |-> FALSE, data |-> << "unknown method: ", name >>] >>

(* azure_iot_receiver.py:92: status and payload when the handler raised exc *)
HandlerFault(exc) == << 500, [result |-> FALSE, error |-> exc] >>

(* azure_iot_receiver.py:97: MethodResponse.create_from_method_request *)
create_from_method_request(request_id, status, payload) ==
    [request_id |-> request_id, status |-> status, payload |-> payload]

(* azure_iot_receiver.py:97-98: the response is built and                   *)
(* send_method_response called with it                                      *)
Respond(r, result) ==
    LET response == create_from_method_request(r, result[1], result[2])
    IN  responses' = [responses EXCEPT
                         ![response.request_id] = Append(@, response)]

(* azure_iot_receiver.py:82-98: the transport calls the dispatcher with a   *)
(* request (its id is the position in `requests`).  With a handler, the     *)
(* handler is called and _dispatch suspends in it; without, the 400         *)
(* response is built and send_method_response is called.                    *)
_dispatch ==
    /\ on_method_request_received
    /\ Len(requests) < MaxRequests
    /\ \E name \in MethodNames :
          LET r == Len(requests) + 1
              handler == _handlers[name]
          IN  IF handler # "none"
              THEN /\ requests' = Append(requests,
                          [name |-> name, handler |-> handler, pc |-> "handler",
                           outcome |-> << >>])
                   /\ invoked' = [invoked EXCEPT ![r] = Append(@, handler)]
                   /\ UNCHANGED responses
              ELSE /\ requests' = Append(requests,
                          [name |-> name, handler |-> handler,
                           pc |-> "responding", outcome |-> << >>])
                   /\ Respond(r, UnknownMethod(name))
                   /\ UNCHANGED invoked
    /\ UNCHANGED << _handlers, receiver_pc, on_method_request_received,
                    runner_vars, hmi_vars >>

(* The handler's return as it would be answered if the dispatcher always    *)
(* reported success                                                         *)
handler_returns_answers_200 ==
    /\ \E r \in 1..Len(requests), ret \in HandlerReturns :
          /\ requests[r].pc = "handler"
          /\ requests' = [requests EXCEPT ![r].pc = "responding",
                              ![r].outcome = << "returned", ret[1], ret[2] >>]
          /\ Respond(r, << 200, ret[2] >>)
    /\ UNCHANGED << _handlers, receiver_pc, on_method_request_received,
                    invoked, runner_vars, hmi_vars >>

(* azure_iot_receiver.py:89, 97-98: the handler returns (status, payload)   *)
handler_returns ==
    /\ \E r \in 1..Len(requests), ret \in HandlerReturns :
          /\ requests[r].pc = "handler"
          /\ requests' = [requests EXCEPT ![r].pc = "responding",
                              ![r].outcome = << "returned", ret[1], ret[2] >>]
          /\ Respond(r, ret)
    /\ UNCHANGED << _handlers, receiver_pc, on_method_request_received,
                    invoked, runner_vars, hmi_vars >>

(* The dispatcher as it would be without the try/except around the handler  *)
handler_raises_propagates ==
    /\ \E r \in 1..Len(requests), exc \in HandlerErrors :
          /\ requests[r].pc = "handler"
          /\ requests' = [requests EXCEPT ![r].pc = "raised",
                              ![r].outcome = << "raised", exc >>]
    /\ UNCHANGED << _handlers, receiver_pc, on_method_request_received,
                    invoked, responses, runner_vars, hmi_vars >>

(* azure_iot_receiver.py:89-92, 97-98: the handler raises; the exception is *)
(* caught and answered with 500                                             *)
handler_raises ==
    /\ \E r \in 1..Len(requests), exc \in HandlerErrors :
          /\ requests[r].pc = "handler"
          /\ requests' = [requests EXCEPT ![r].pc = "responding",
                              ![r].outcome = << "raised", exc >>]
          /\ Respond(r, HandlerFault(exc))
    /\ UNCHANGED << _handlers, receiver_pc, on_method_request_received,
                    invoked, runner_vars, hmi_vars >>

(* azure_iot_receiver.py:98-99: send_method_response returns *)
send_method_response_returns ==
    /\ \E r \in 1..Len(requests) :
          /\ requests[r].pc = "responding"
          /\ requests' = [requests EXCEPT ![r].pc = "done"]
    /\ UNCHANGED << _handlers, receiver_pc, on_method_request_received,
                    invoked, responses, runner_vars, hmi_vars >>

(* azure_iot_receiver.py:98: send_method_response raises (the transport's   *)
(* error leaves _dispatch)                                                  *)
send_method_response_raises ==
    /\ \E r \in 1..Len(requests) :
          /\ requests[r].pc = "responding"
          /\ requests' = [requests EXCEPT ![r].pc = "send_raised"]
    /\ UNCHANGED << _handlers, receiver_pc, on_method_request_received,
                    invoked, responses, runner_vars, hmi_vars >>

-----------------------------------------------------------------------------
(* hmi_methods, receiver/hmi_methods.py, and Database.log_hmi_event,        *)
(* infra/database.py                                                        *)

(* hmi_methods.py:34-39: method name -> handler function *)
HANDLERS == [name \in {"run_hmi", "stop_hmi", "reset_hmi"} |-> name]

(* dict.get(key): the value, None without the key *)
Get(d, key) == IF key \in DOMAIN d THEN d[key] ELSE "None"

(* dict.pop(key, default): the dict without the key *)
Pop(d, key) == [k \in DOMAIN d \ {key} |-> d[k]]

(* database.py:80-100: user is popped from the message (default "unknown"), *)
(* the rest is the payload column                                           *)
log_hmi_event(method, message) ==
    [method |-> method,
     user |-> IF "user" \in DOMAIN message THEN message["user"] ELSE "unknown",
     payload |-> Pop(message, "user")]

(* hmi_methods.py:42-69: what one dispatch(message) call does: the handlers *)
(* it invokes, the rows it inserts and the exception it raises.             *)
(* HANDLERS.get(method) hashes the method: a list raises TypeError.         *)
DispatchOutcome(message) ==
    LET nothing == [invoked |-> << >>, rows |-> << >>, raised |-> "none"]
        method == Get(message.items, "method")
        user == Get(message.items, "user")
    IN  IF ~message.is_dict THEN nothing
        ELSE IF method = "None" THEN nothing
        ELSE IF user = "None" THEN nothing
        ELSE IF method = "list" THEN [nothing EXCEPT !.raised = "TypeError"]
        ELSE IF method \in DOMAIN HANDLERS
             THEN [invoked |-> << HANDLERS[method] >>,
                   rows |-> << log_hmi_event(HANDLERS[method],
                                             Pop(message.items, "method")) >>,
                   raised |-> "none"]
             ELSE nothing

(* hmi_methods.py:42-69: one call of dispatch (a synchronous function) *)
dispatch ==
    /\ Len(hmi_calls) < MaxDispatches
    /\ \E message \in HmiMessages :
          LET out == DispatchOutcome(message)
          IN  /\ hmi_calls' = Append(hmi_calls,
                                     [message |-> message,
                                      invoked |-> out.invoked,
                                      raised |-> out.raised])
              /\ hmi_events' = hmi_events \o out.rows
    /\ UNCHANGED << runner_vars, receiver_vars >>

-----------------------------------------------------------------------------
Next ==
    \/ enqueue_nowait
    \/ enqueue
    \/ stop
    \/ _on_connection_state_change
    \/ link_down
    \/ reconnect_wait_first
    \/ reconnect_after_wait
    \/ connect_succeeds
    \/ connect_fails
    \/ reconnect_sleep_over
    \/ send_wait_first
    \/ send_after_wait
    \/ send_get_task_done
    \/ send_exit_task_done
    \/ send_exit_without_item
    \/ send_exit_put_back
    \/ send_message_called
    \/ send_succeeds
    \/ send_fails
    \/ build_payload_fails
    \/ run_start
    \/ run_wait_returns
    \/ run_clear_slots
    \/ run_shutdown_returns
    \/ run_shutdown_raises

Spec == Init /\ [][Next]_vars

(* Scheduling of the event loop and of the transport: run() is started      *)
(* (main.py:75-81), a task whose wait is over or whose timer has fired is    *)
(* resumed, a transport call (connect, send_message, shutdown) completes one *)
(* way or the other, and a pending state report is delivered.                *)
Fairness ==
    /\ WF_vars(run_start)
    /\ WF_vars(_on_connection_state_change)
    /\ WF_vars(reconnect_wait_first)
    /\ WF_vars(reconnect_after_wait)
    /\ WF_vars(connect_succeeds \/ connect_fails)
    /\ WF_vars(reconnect_sleep_over)
    /\ WF_vars(send_wait_first)
    /\ WF_vars(send_after_wait)
    /\ WF_vars(send_get_task_done \/ send_exit_task_done)
    /\ WF_vars(send_exit_without_item)
    /\ WF_vars(send_exit_put_back)
    /\ WF_vars(send_message_called \/ build_payload_fails)
    /\ WF_vars(send_succeeds \/ send_fails)
    /\ WF_vars(run_wait_returns)
    /\ WF_vars(run_clear_slots)
    /\ WF_vars(run_shutdown_returns \/ run_shutdown_raises)

(* The runner with producers that hand over at most MaxFairPayloads payloads *)
FairNext ==
    \/ (next_id <= MaxFairPayloads /\ enqueue_nowait)
    \/ (next_id <= MaxFairPayloads /\ enqueue)
    \/ stop
    \/ _on_connection_state_change
    \/ link_down
    \/ reconnect_wait_first
    \/ reconnect_after_wait
    \/ connect_succeeds
    \/ connect_fails
    \/ reconnect_sleep_over
    \/ send_wait_first
    \/ send_after_wait
    \/ send_get_task_done
    \/ send_exit_task_done
    \/ send_exit_without_item
    \/ send_exit_put_back
    \/ send_message_called
    \/ send_succeeds
    \/ send_fails
    \/ build_payload_fails
    \/ run_start
    \/ run_wait_returns
    \/ run_clear_slots
    \/ run_shutdown_returns
    \/ run_shutdown_raises

FairSpec == Init /\ [][FairNext]_vars /\ Fairness

ReceiverNext ==
    \/ register
    \/ receiver_connects
    \/ receiver_connect_fails
    \/ receiver_quits
    \/ receiver_shutdown_returns
    \/ receiver_shutdown_raises
    \/ _dispatch
    \/ handler_returns
    \/ handler_raises
    \/ send_method_response_returns
    \/ send_method_response_raises

ReceiverSpec == Init /\ [][ReceiverNext]_vars

HmiNext == dispatch

HmiSpec == Init /\ [][HmiNext]_vars

-----------------------------------------------------------------------------
(* Properties *)

Range(s) == { s[i] : i \in 1..Len(s) }

Count(x, s) == Cardinality({ i \in 1..Len(s) : s[i] = x })

Accepted == 1..(next_id - 1)

(* C1: connected_event and disconnected_event are never both set, under any *)
(* interleaving of state reports with the loops, enqueue and stop().        *)
C1_NeverBothSet == ~(connected_event /\ disconnected_event)

(* a connected report has been handled *)
C1_Witness == connected_event /\ ~disconnected_event /\ client_connected

(* The state of a freshly constructed runner (test_initial_events) *)
C2_FreshRunner ==
    disconnected_event = TRUE /\ connected_event = FALSE /\ exit_event = FALSE

(* C2: a freshly constructed runner has disconnected_event set and          *)
(* connected_event, exit_event clear, and in every reachable state exactly  *)
(* one of connected_event / disconnected_event is set.                      *)
C2_ExactlyOneSet == C2_FreshRunner /\ [](connected_event # disconnected_event)

(* the link came up and went down again and every report has been handled *)
C2_Witness ==
    /\ last_connect = "ok"
    /\ ~client_connected
    /\ pending_reports = 0
    /\ disconnected_event /\ ~connected_event

(* C3: once exit_event is set, no step of the runner clears it. *)
C3_ExitLatch == [][exit_event => exit_event']_vars

(* exit was requested by stop() and run() went through its whole teardown *)
C3_Witness == exit_event /\ run_pc = "done" /\ run_result = "returned"

(* C4: every accepted payload is still queued, held by the send loop, or    *)
(* was passed to a send_message call that succeeded.                        *)
C4_AtLeastOnce ==
    \A p \in Accepted : p \in Range(queue) \/ p = raw_data \/ p \in Range(sent)

(* C5: as long as no send has failed, the send_message calls are made for   *)
(* the payloads 1, 2, 3, ... in the order they were enqueued, once each,    *)
(* and when the queue is drained (and no exit was requested) every accepted *)
(* payload has been sent.                                                   *)
C5_FifoWithoutFailure ==
    ~send_failed =>
        /\ \A i \in 1..Len(sent) : sent[i] = i
        /\ (~exit_event /\ queue = << >> /\ raw_data = 0)
              => Len(sent) = next_id - 1

(* a full queue was enqueued before the send loop took anything and has     *)
(* been drained in order                                                    *)
C5_Witness ==
    /\ ~send_failed
    /\ ~exit_event
    /\ Len(sent) >= _QUEUE_MAX_SIZE
    /\ queue = << >>
    /\ raw_data = 0

(* C6: a send failure re-enqueues the payload exactly once (the queue then  *)
(* holds it exactly once, whatever the producers did during the send), and  *)
(* a payload that was sent successfully is no longer in the queue.          *)
C6_ReEnqueuedOnce ==
    /\ [][(send_pc = "sending" /\ send_pc' \notin {"sending", "cancelled"}
              /\ sent' = sent)
            => Count(raw_data, queue') = 1]_vars
    /\ [](\A p \in Range(sent) : p \notin Range(queue))

(* C7: the delay computed at the first connect failure after a connect call *)
(* that succeeded is the initial delay.                                     *)
C7_ResetAfterSuccess ==
    [][(reconnect_pc = "connecting" /\ last_connect = "ok"
           /\ last_connect' = "fail")
         => sleep' = _INITIAL_RETRY_INTERVAL]_vars

(* The delay computed at the N-th failure of a run of failures *)
C8_DelayFormula ==
    (last_connect = "fail" /\ clean_run) =>
        /\ n_fail >= 1
        /\ sleep = Min(_INITIAL_RETRY_INTERVAL * (2 ^ (n_fail - 1)),
                       _MAX_RETRY_INTERVAL)

C9_FatalReported ==
    reconnect_pc = "raised" =>
        /\ exit_event
        /\ sleep >= _MAX_RETRY_INTERVAL
        /\ (run_pc \in {"gather", "shutdown", "done"}
              => run_result = "RuntimeError")

(* C10: when stop() was called while the send loop held a dequeued item and *)
(* run() has returned, the queue contains that item.                        *)
C10_InFlightKept ==
    (stop_held # 0 /\ run_pc = "done") => stop_held \in Range(queue)

(* C11: run() ends only by returning after stop() requested the exit, or by *)
(* raising the fatal RuntimeError of the reconnect loop; a transient        *)
(* connect or send failure never ends it.                                   *)
C11_EndsOnlyOnStopOrFatal ==
    [][(run_pc = "waiting" /\ run_pc' # "waiting")
         => \/ (run_result' = "returned" /\ exit_event)
            \/ (run_result' = "RuntimeError" /\ reconnect_pc = "raised")]_vars

(* C12: a call of enqueue_nowait on a full queue raises and leaves the      *)
(* queue as it was; on a queue that is not full it appends the payload at   *)
(* the tail; no producer step drops a queued payload.                       *)
C12_NowaitFullRaises ==
    [][/\ (enqueue_nowait /\ full(queue))
             => (enqueue_nowait_raised' /\ queue' = queue /\ next_id' = next_id)
       /\ (enqueue_nowait /\ ~full(queue))
             => (~enqueue_nowait_raised' /\ queue' = Append(queue, next_id))
       /\ (next_id' # next_id)
             => (~full(queue) /\ queue' = Append(queue, next_id))]_vars

(* enqueue_nowait has raised on a full queue, and the queue still holds the *)
(* payloads accepted before                                                 *)
C12_Witness ==
    /\ enqueue_nowait_raised
    /\ Len(queue) = _QUEUE_MAX_SIZE
    /\ queue[Len(queue)] = next_id - 1

(* C13: the queue never holds more than _QUEUE_MAX_SIZE payloads, and no    *)
(* step puts a payload into a full queue.                                   *)
C13_QueueBounded ==
    /\ [](Len(queue) <= _QUEUE_MAX_SIZE)
    /\ [][Len(queue') > Len(queue) => ~full(queue)]_vars

(* the queue was refilled to its capacity while the send loop holds a       *)
(* payload in a send_message call, after an earlier send failure            *)
C13_Witness ==
    /\ Len(queue) = _QUEUE_MAX_SIZE
    /\ send_pc = "sending"
    /\ send_failed

(* The handler of request r has returned / has raised *)
Returned(r) == Len(requests[r].outcome) > 0 /\ requests[r].outcome[1] = "returned"

Raised(r) == Len(requests[r].outcome) > 0 /\ requests[r].outcome[1] = "raised"

(* C14: a request whose name has a handler in _handlers when it is          *)
(* dispatched gets that handler invoked exactly once, no response before    *)
(* the handler is over, and once it returned exactly one response, for that *)
(* request, with the status and payload the handler returned.               *)
C14_RegisteredDispatch ==
    /\ [](\A r \in 1..Len(requests) :
            requests[r].handler # "none" =>
              /\ invoked[r] = << requests[r].handler >>
              /\ requests[r].pc = "handler" => responses[r] = << >>
              /\ Returned(r) =>
                    responses[r] = << [request_id |-> r,
                                       status |-> requests[r].outcome[2],
                                       payload |-> requests[r].outcome[3]] >>)
    /\ [][Len(requests') > Len(requests) =>
            LET r == Len(requests')
            IN  _handlers[requests'[r].name] # "none" =>
                  invoked'[r] = << _handlers[requests'[r].name] >>]_vars

(* a handler answered 503 and its response was sent *)
C14_Witness ==
    \E r \in 1..Len(requests) :
        /\ Returned(r)
        /\ requests[r].outcome[2] = 503
        /\ requests[r].pc = "done"

(* C15: a request whose name has no handler in _handlers when it is         *)
(* dispatched gets exactly one response, with status 400 and the payload    *)
(* {result: false, data: "unknown method: <name>"}, and no handler is       *)
(* invoked for it.                                                          *)
C15_UnknownMethod ==
    /\ [](\A r \in 1..Len(requests) :
            requests[r].handler = "none" =>
              /\ invoked[r] = << >>
              /\ responses[r] =
                    << [request_id |-> r, status |-> 400,
                        payload |-> [result |-> FALSE,
                                     data |-> << "unknown method: ",
                                                 requests[r].name >>]] >>)
    /\ [][Len(requests') > Len(requests) =>
            LET r == Len(requests')
            IN  _handlers[requests'[r].name] = "none" =>
                  (requests'[r].handler = "none" /\ invoked' = invoked)]_vars

(* a request for a name that is never registered was answered, while        *)
(* another name has a handler                                               *)
C15_Witness ==
    /\ \E name \in RegisteredNames : _handlers[name] # "none"
    /\ \E r \in 1..Len(requests) :
          /\ requests[r].name = "status"
          /\ requests[r].pc = "done"

(* C16: a request whose handler raised gets exactly one response, with      *)
(* status 500 and the payload {result: false, error: <message>}; the        *)
(* exception does not leave _dispatch, and the step in which the handler    *)
(* raises leaves run() and its callback slot as they are.                   *)
C16_HandlerFault ==
    /\ [](\A r \in 1..Len(requests) :
            Raised(r) =>
              /\ requests[r].pc \in {"responding", "done", "send_raised"}
              /\ responses[r] =
                    << [request_id |-> r, status |-> 500,
                        payload |-> [result |-> FALSE,
                                     error |-> requests[r].outcome[2]]] >>)
    /\ [][(\E r \in 1..Len(requests) :
              requests[r].pc = "handler" /\ requests'[r].pc # "handler")
            => UNCHANGED << receiver_pc, on_method_request_received,
                            run_pc, run_result, exit_event >>]_vars

(* a handler raised, its 500 response was sent and the receiver still       *)
(* listens                                                                  *)
C16_Witness ==
    /\ receiver_pc = "listening"
    /\ on_method_request_received
    /\ \E r \in 1..Len(requests) : Raised(r) /\ requests[r].pc = "done"

(* C17: stop() changes nothing but exit_event (queue, signals, backoff      *)
(* state, callback slots, the two tasks and the transport stay as they      *)
(* are), and the tasks are cancelled, the slots cleared and shutdown()      *)
(* called only by a step of run().                                          *)
C17_StopOnlySetsExit ==
    [][/\ (~exit_event /\ exit_event' /\ run_pc' = run_pc
              /\ reconnect_pc' # "raised")
             => UNCHANGED << queue, event_vars, backoff_vars, slots,
                             transport_vars, reconnect_pc, send_pc, raw_data,
                             shutdown_calls >>
       /\ (\/ (reconnect_pc' = "cancelled" /\ reconnect_pc # "cancelled")
           \/ (send_pc' = "cancelled" /\ send_pc # "cancelled")
           \/ (\E k \in DOMAIN slots : slots[k] /\ ~slots'[k])
           \/ shutdown_calls' # shutdown_calls)
             => run_pc' # run_pc]_vars

(* stop() was called while run() was waiting on its tasks with the inbound  *)
(* slots wired, and nothing has been torn down yet                          *)
C17_Witness ==
    /\ exit_event
    /\ run_pc = "waiting"
    /\ reconnect_pc # "raised"
    /\ slots.message /\ slots.method /\ slots.state_change
    /\ shutdown_calls = 0
    /\ queue # << >>

(* C18: while run() waits, a finished task (returned or raised) is enough   *)
(* for asyncio.wait to return: run() does not wait for the other task.      *)
C18_FirstFinishWins ==
    (run_pc = "waiting" /\ (reconnect_pc \in Finished \/ send_pc \in Finished))
        => ENABLED run_wait_returns

(* C19: when run() has ended, none of the three callback slots is set. *)
C19_AllSlotsCleared ==
    run_pc = "done" => \A k \in DOMAIN slots : ~slots[k]

(* C20: shutdown() is called exactly once by the time run() ends, whatever  *)
(* the outcome, never before the teardown, and a shutdown() that raises     *)
(* leaves the outcome of run() as it was.                                   *)
C20_ShutdownOnceSwallowed ==
    /\ [](shutdown_calls = IF run_pc \in {"shutdown", "done"} THEN 1 ELSE 0)
    /\ [](run_pc = "done" => run_result \in {"returned", "RuntimeError", "QueueFull"})
    /\ [][run_pc = "shutdown" => run_result' = run_result]_vars

(* shutdown() raised at the end of a run() that ends with the fatal error *)
C20_Witness ==
    /\ run_pc = "done"
    /\ shutdown_raised
    /\ shutdown_calls = 1
    /\ run_result = "RuntimeError"

(* A step of the connection-state handler: the transport delivers one       *)
(* pending report                                                           *)
ReportHandled == pending_reports' < pending_reports

(* A step in which the reconnect loop calls connect() *)
ConnectCalled == reconnect_pc # "connecting" /\ reconnect_pc' = "connecting"

(* C21: after the handler has run while the transport is connected,         *)
(* _retry_factor is 1.                                                      *)
C21_FactorResetToOne ==
    [][(ReportHandled /\ client_connected) => retry_factor' = 1]_vars

(* C24: a report handled while connected leaves connected_event set and     *)
(* disconnected_event clear; a report handled while disconnected leaves     *)
(* connected_event clear and disconnected_event set and the backoff state   *)
(* as it was; no other step changes either signal.                          *)
C24_SignalsMirrorReports ==
    [][/\ (ReportHandled /\ client_connected)
             => (connected_event' /\ ~disconnected_event')
       /\ (ReportHandled /\ ~client_connected)
             => (~connected_event' /\ disconnected_event'
                   /\ UNCHANGED backoff_vars)
       /\ (event_vars' # event_vars) => ReportHandled]_vars

(* a disconnection was reported after a connection had been reported, in    *)
(* the middle of a series of failed attempts whose count was kept           *)
C24_Witness ==
    /\ ~connected_event /\ disconnected_event
    /\ ~client_connected
    /\ pending_reports = 0
    /\ last_connect = "ok"
    /\ retry_factor > 0

(* The state a report leaves behind when handled with the transport in its  *)
(* current state                                                            *)
AlreadyReported ==
    IF client_connected
    THEN /\ connected_event /\ ~disconnected_event
         /\ retry_factor = 0
         /\ retry_interval = _INITIAL_RETRY_INTERVAL
         /\ try_number = 1
    ELSE ~connected_event /\ disconnected_event

(* C25: handling a report of the state that the previous report already     *)
(* left behind changes nothing: signals, backoff state, queue and exit stay *)
(* as they are.                                                             *)
C25_DuplicateReportIdempotent ==
    [][(ReportHandled /\ AlreadyReported)
         => UNCHANGED << event_vars, backoff_vars, queue, exit_event,
                         reconnect_pc, send_pc >>]_vars

(* the connected state has been reported, and the transport, still          *)
(* connected after a drop and a reconnection, has a report to deliver       *)
C25_Witness ==
    /\ client_connected
    /\ connected_event /\ ~disconnected_event
    /\ retry_factor = 0 /\ try_number = 1
    /\ pending_reports > 0
    /\ slots.state_change

(* C27: after a connect() call that succeeded, the reconnect loop calls     *)
(* connect() again only after a disconnection has been reported: a handled  *)
(* disconnection report leaves disconnected_event set until the next        *)
(* success is reported, so the signal is set at that call.                  *)
C27_NoConnectBeforeReport ==
    [][(ConnectCalled /\ last_connect = "ok") => disconnected_event]_vars

(* C28: retry factor and attempt counter are lowered only by the report of  *)
(* a connection that succeeded, and then to their initial values; no other  *)
(* step lowers them.                                                        *)
C28_BackoffResetOnlyOnSuccess ==
    [][(retry_factor' < retry_factor \/ try_number' < try_number)
         => /\ ReportHandled
            /\ client_connected
            /\ last_connect = "ok"
            /\ retry_factor' = 0
            /\ try_number' = 1]_vars

(* after at least two failed attempts a connection succeeded and its report *)
(* has reset the backoff state                                              *)
C28_Witness ==
    /\ retry_factor = 0 /\ try_number = 1
    /\ sleep > _INITIAL_RETRY_INTERVAL
    /\ last_connect = "ok"
    /\ connected_event

(* C29: when exit_event is set while the reconnect loop is in its backoff   *)
(* sleep, a step other than the end of the delay takes the loop out of the  *)
(* sleep.                                                                   *)
C29_SleepWakesOnExit ==
    (reconnect_pc = "sleeping" /\ exit_event)
        => ENABLED (Next /\ reconnect_pc' # "sleeping" /\ ~reconnect_sleep_over)

(* The message of the latest dispatch call *)
LastMessage == hmi_calls[Len(hmi_calls)].message

(* C22: a dispatch of a dict whose "method" is run_hmi, stop_hmi or         *)
(* reset_hmi inserts exactly one event, for that method, whatever the       *)
(* other fields are, and every such dispatch is in the event log.           *)
C22_KnownMethodLogged ==
    [][Len(hmi_calls') > Len(hmi_calls) =>
         LET m == LastMessage'
         IN  (m.is_dict /\ Get(m.items, "method") \in DOMAIN HANDLERS) =>
                /\ Len(hmi_events') = Len(hmi_events) + 1
                /\ hmi_events'[Len(hmi_events')].method = m.items["method"]]_vars

(* C23: a dispatch of a payload that is not a dict, has no "method" key or  *)
(* names no known method invokes no handler, inserts no event and does not  *)
(* raise.                                                                   *)
C23_UnknownIgnored ==
    [][Len(hmi_calls') > Len(hmi_calls) =>
         LET m == LastMessage'
             call == hmi_calls'[Len(hmi_calls')]
         IN  (~m.is_dict \/ "method" \notin DOMAIN m.items
                \/ m.items["method"] \notin DOMAIN HANDLERS) =>
                /\ hmi_events' = hmi_events
                /\ call.invoked = << >>
                /\ call.raised = "none"]_vars

(* The reconnect loop is inside a connect() call *)
Connecting == reconnect_pc = "connecting"

SendCalled == send_pc # "sending" /\ send_pc' = "sending"

(* C30: once exit_event is set both loops end, wherever they were suspended, *)
(* and neither calls connect() or send_message() again.                      *)
C30_LoopsTerminateOnExit ==
    /\ (exit_event /\ run_pc # "init")
          ~> (reconnect_pc \in Finished /\ send_pc \in Finished)
    /\ [][exit_event => (~ConnectCalled /\ ~SendCalled)]_vars

(* exit_event is set and both loops have returned by themselves, after a    *)
(* failed connect() and with a payload left in the queue                    *)
C30_Witness ==
    /\ exit_event
    /\ run_pc = "waiting"
    /\ reconnect_pc = "returned" /\ send_pc = "returned"
    /\ n_fail > 0
    /\ queue # << >>

(* C31: when the send loop returns on exit_event with an item already       *)
(* dequeued, the item is put back at the front of the queue: the queue is   *)
(* what it was before the dequeue.                                          *)
C31_RestoredToFront ==
    [][send_exit_put_back => queue' = << raw_data >> \o queue]_vars

(* C32: a send failure re-enqueues the failed payload at the tail of the    *)
(* queue and the loop goes on; and as long as no payload has failed, the    *)
(* payloads are handed to send_message in the order they were enqueued.     *)
C32_FailedToTailFifoOtherwise ==
    [][/\ (send_fails \/ build_payload_fails)
             => (queue' = Append(queue, raw_data) /\ send_pc' # "raised")
       /\ (SendCalled /\ ~send_failed) => raw_data = Len(sent) + 1]_vars

(* The send loop is suspended: waiting for connected_event, waiting on an   *)
(* empty queue, or not running                                              *)
SendLoopSuspended ==
    \/ (send_pc = "waitconn" /\ ~connected_event /\ ~exit_event)
    \/ (send_pc = "getwait" /\ queue = << >> /\ ~exit_event)
    \/ send_pc \in Finished \cup {"idle"}

(* C33: the send loop never goes on for ever with failing attempts back to  *)
(* back: again and again it is suspended waiting for connected_event or on  *)
(* an empty queue (or it has ended).                                        *)
C33_NoRetryStorm == []<>SendLoopSuspended

(* C34: the send loop dequeues a payload and calls send_message only while  *)
(* the transport is connected.                                              *)
C34_DrainsOnlyWhileConnected ==
    [][(send_get_task_done \/ SendCalled) => client_connected]_vars

(* C35: no two of the transport operations connect(), send_message() and    *)
(* shutdown() are in progress at the same time.                             *)
C35_OneTransportOperation ==
    /\ ~(reconnect_pc = "connecting" /\ send_pc = "sending")
    /\ ~(run_pc = "shutdown" /\ reconnect_pc = "connecting")
    /\ ~(run_pc = "shutdown" /\ send_pc = "sending")

(* C36: connect() is never called at a moment when exit_event is set.       *)
C36_NoConnectOnceExitSet ==
    [][ConnectCalled => (~exit_event /\ ~exit_event')]_vars

(* the reconnect loop has returned on exit_event without a single connect() *)
(* call                                                                     *)
C36_Witness ==
    /\ exit_event
    /\ reconnect_pc = "returned"
    /\ last_connect = "none"
    /\ n_fail = 0
    /\ run_pc = "waiting"

(* C37: _wait_first returns to its caller only when one of its signals is   *)
(* set, and neither the completion of its wait nor its return changes a     *)
(* signal.                                                                  *)
C37_WaitFirstContract ==
    [][/\ (reconnect_pc = "woken" /\ reconnect_pc' \notin {"woken", "cancelled"})
             => (disconnected_event \/ exit_event)
       /\ (send_pc = "woken" /\ send_pc' \notin {"woken", "cancelled"})
             => (connected_event \/ exit_event)
       /\ (reconnect_wait_first \/ reconnect_after_wait
              \/ send_wait_first \/ send_after_wait)
             => UNCHANGED << event_vars, exit_event >>]_vars

(* C38: a name that has a handler can be registered again with another      *)
(* handler; a registration changes the entry of one name, to the handler    *)
(* given, and leaves the other names alone; a dispatch invokes the handler  *)
(* the name has at that moment, and only that one.                          *)
C38_LastWriteWins ==
    /\ [](\A name \in RegisteredNames, fn \in Handlers :
            _handlers[name] # fn
               => ENABLED (register /\ _handlers'[name] = fn))
    /\ [][_handlers' # _handlers =>
            \E name \in RegisteredNames :
               /\ _handlers'[name] \in Handlers
               /\ \A other \in MethodNames \ {name} :
                     _handlers'[other] = _handlers[other]]_vars
    /\ [][Len(requests') > Len(requests) =>
            LET r == Len(requests')
                latest == _handlers[requests'[r].name]
            IN  /\ requests'[r].handler = latest
                /\ invoked'[r] = IF latest = "none" THEN << >> ELSE << latest >>
                /\ \A q \in 1..Len(requests) : invoked'[q] = invoked[q]]_vars

(* two requests of the same name were dispatched to different handlers: the *)
(* name was registered again in between, and the second request went to the *)
(* handler registered last                                                  *)
C38_Witness ==
    \E r1, r2 \in 1..Len(requests) :
        /\ r1 < r2
        /\ requests[r1].name = requests[r2].name
        /\ Len(invoked[r1]) = 1 /\ Len(invoked[r2]) = 1
        /\ invoked[r1] # invoked[r2]
        /\ invoked[r2] = << _handlers[requests[r2].name] >>

(* C39: at most 13 connect failures in a row without a connected report,    *)
(* the retry factor is at most 12, and a delay that is slept is at most     *)
(* 4096 s, below the ceiling.                                               *)
C39_RetryGrowthBounded ==
    /\ n_fail <= 13
    /\ retry_factor <= 12
    /\ n_fail = 13 => reconnect_pc \in {"raised", "cancelled"}
    /\ reconnect_pc = "sleeping" =>
          (sleep <= 4096 /\ sleep < _MAX_RETRY_INTERVAL)

(* the thirteenth failure in a row was fatal, although a connect() had      *)
(* succeeded in between: the link dropped before its report was handled     *)
C39_Witness ==
    /\ reconnect_pc = "raised"
    /\ n_fail = 13
    /\ retry_factor = 12
    /\ ~clean_run

(* C40: shutdown() is called only when exit_event is set and both tasks     *)
(* have finished or were cancelled, and they stay so: no connect() or       *)
(* send_message() is in progress at the call or started after it.           *)
C40_ShutdownAfterTasks ==
    /\ [](shutdown_calls > 0 =>
            /\ exit_event
            /\ reconnect_pc \in Finished
            /\ send_pc \in Finished)
    /\ [][shutdown_calls' > shutdown_calls =>
            /\ exit_event
            /\ reconnect_pc \in Finished /\ send_pc \in Finished
            /\ UNCHANGED << reconnect_pc, send_pc >>]_vars

(* shutdown() has been called after the send task raised and the reconnect  *)
(* task was cancelled                                                       *)
C40_Witness ==
    /\ run_pc = "shutdown"
    /\ shutdown_calls = 1
    /\ send_pc = "raised"
    /\ reconnect_pc = "cancelled"

====
